---------------------------- MODULE Spec2Model ----------------------------
(***************************************************************************)
(* A model of streamlit_app.py: the RegressionApp object, the batch run of *)
(* run_regression_scenarios with its thread pool of scenario tasks, the    *)
(* subset enumeration (itertools.combinations chained over the sizes) and  *)
(* the coefficient ordering of prepare_downloads / display_results_page.   *)
(*                                                                         *)
(* The methods of RegressionApp are public.  The model lets a caller       *)
(* invoke them in any order; the order main() uses (choose_file,           *)
(* run_regression_scenarios, show_variable_selection) is one of them.      *)
(*                                                                         *)
(* Column names are sequences of character codes, so that Python's string *)
(* comparison (code point by code point, a proper prefix first) is        *)
(* computed rather than assumed.                                           *)
(***************************************************************************)
EXTENDS Integers, Sequences, FiniteSets, TLC

\* ------------------------------------------------------------------ bounds

\* Largest number of predictor columns of a dataset of the enumeration runs.
MaxPredictors == 3

\* Number of batch runs a caller starts on one application object.
MaxRuns == 2

\* ------------------------------------------------------- program constants

\* ThreadPoolExecutor(max_workers=4)
max_workers == 4

\* self.total_regressions = 5 * self.num_combinations
TotalFactor == 5

\* --------------------------------------------------------- column names

Year == <<89, 101, 97, 114>>

Response == <<89>>

const == <<99, 111, 110, 115, 116>>

Zeta == <<90, 101, 116, 97>>

Alpha == <<65, 108, 112, 104, 97>>

alpha == <<97, 108, 112, 104, 97>>

Al == <<65, 108>>

\* A first column that is not named Year.
Period == <<80, 101, 114, 105, 111, 100>>

\* The predictor names datasets are built from.
PredictorNames == {Zeta, Alpha, alpha, Al}

\* --------------------------------------------------------------- helpers

Range(s) == {s[i] : i \in DOMAIN s}

Max(S) == CHOOSE x \in S : \A y \in S : y <= x

\* All sequences without repetition, of length n, over the set S.
RECURSIVE DistinctSeqs(_, _)
DistinctSeqs(S, n) ==
    IF n = 0 THEN {<<>>}
    ELSE UNION {{Append(p, x) : x \in S \ Range(p)} : p \in DistinctSeqs(S, n - 1)}

\* Python's str < str: the first differing code point decides, and a proper
\* prefix is smaller.
RECURSIVE StrLess(_, _)
StrLess(a, b) ==
    IF b = <<>> THEN FALSE
    ELSE IF a = <<>> THEN TRUE
    ELSE IF Head(a) # Head(b) THEN Head(a) < Head(b)
    ELSE StrLess(Tail(a), Tail(b))

\* ------------------------------------------------------ predefined_years

predefined_years ==
    [w1 |-> 2001..2023,
     w2 |-> (2005..2023) \ {2009, 2016},
     w3 |-> (2001..2023) \ {2020, 2021, 2022},
     w4 |-> 2001..2019,
     w5 |-> (2001..2023) \ {2009, 2013, 2020, 2021, 2022}]

\* The iteration order of the scenario mapping (dict insertion order).
ScenarioOrder == <<"w1", "w2", "w3", "w4", "w5">>

ScenarioNames == Range(ScenarioOrder)

\* ------------------------------------------------- itertools.combinations

\* One step of itertools.combinations: the tuple for the current indices,
\* then the rightmost index that is not at its maximum is advanced and the
\* indices after it are reset to follow it.
RECURSIVE CombinationsFrom(_, _, _)
CombinationsFrom(pool, r, indices) ==
    LET n == Len(pool)
        movable == {i \in 1..r : indices[i] # i + n - r}
        current == [j \in 1..r |-> pool[indices[j]]]
    IN  IF movable = {} THEN <<current>>
        ELSE LET i == Max(movable)
                 next == [j \in 1..r |->
                            IF j < i THEN indices[j] ELSE indices[i] + 1 + (j - i)]
             IN  <<current>> \o CombinationsFrom(pool, r, next)

FirstIndices(r) == [j \in 1..r |-> j]

combinations(pool, r) ==
    IF r > Len(pool) THEN <<>> ELSE CombinationsFrom(pool, r, FirstIndices(r))

\* range(1, num_variables + 1), as the sizes the enumeration chains over.
SizesSkipLast(num_variables) == 1..(num_variables - 1)

Sizes(num_variables) == 1..num_variables

RECURSIVE ChainFrom(_, _, _)
ChainFrom(variables, r, sizes) ==
    IF r > Len(variables) THEN <<>>
    ELSE (IF r \in sizes THEN combinations(variables, r) ELSE <<>>)
         \o ChainFrom(variables, r + 1, sizes)

\* list(itertools.chain_from_iterable(combinations(variables, r) for r in ...))
AllCombinations(variables) == ChainFrom(variables, 1, Sizes(Len(variables)))

RECURSIVE SumLengths(_, _)
SumLengths(variables, r) ==
    IF r > Len(variables) THEN 0
    ELSE Len(combinations(variables, r)) + SumLengths(variables, r + 1)

\* sum([len(list(itertools.combinations(self.variables, i))) for i in ...])
CountCombinations(variables) == SumLengths(variables, 1)

\* ----------------------------------------------------------------- sorted

RECURSIVE InsertSorted(_, _)
InsertSorted(x, s) ==
    IF s = <<>> THEN <<x>>
    ELSE IF StrLess(x, Head(s)) THEN <<x>> \o s
    ELSE <<Head(s)>> \o InsertSorted(x, Tail(s))

RECURSIVE SortedFrom(_, _)
SortedFrom(s, acc) ==
    IF s = <<>> THEN acc ELSE SortedFrom(Tail(s), InsertSorted(Head(s), acc))

Unsorted(s) == s

\* sorted(x_vars)
sorted(s) == SortedFrom(s, <<>>)

\* ---------------------------------------------- coefficient rows (export)

\* The rows of model.summary().tables[1] as read back by pd.read_html, by
\* name: the constant sm.add_constant prepends, then the selected columns
\* in the order they were selected.
coeff_table(selected_x_vars) == <<const>> \o selected_x_vars

RECURSIVE SelectSeq2(_, _)
SelectSeq2(s, keep) ==
    IF s = <<>> THEN <<>>
    ELSE (IF Head(s) \in keep THEN <<Head(s)>> ELSE <<>>) \o SelectSeq2(Tail(s), keep)

\* The labelled coefficient rows prepare_downloads and display_results_page
\* append for one result: S{idx}Const, then S{idx}X{i} over sorted(x_vars).
CoefficientRows(selected_x_vars, idx) ==
    LET table == coeff_table(selected_x_vars)
        constant_row == SelectSeq2(table, {const})[1]
        x_vars == SelectSeq2(table, Range(table) \ {const})
        x_vars_sorted == sorted(x_vars)
    IN  <<[label |-> <<"S", idx, "Const">>, name |-> constant_row]>>
        \o [i \in 1..Len(x_vars_sorted) |->
              [label |-> <<"S", idx, "X", i>>, name |-> x_vars_sorted[i]]]

\* ------------------------------------------------------------- datasets

\* self.df before a file is uploaded (None).
NoDf == [loaded |-> FALSE, columns |-> <<>>, years |-> {}]

\* A loaded sheet: its header, and the values its Year column takes (every
\* value stands for enough rows for a fit of full rank).
Dataset(first, predictors, years) ==
    [loaded |-> TRUE, columns |-> <<first, Response>> \o predictors,
     years |-> years]

\* The sheets of the batch runs: one predictor over the whole range (five
\* tasks of one fit each race on the counter), two predictors with
\* observations of 2020-2022 only (the windows w3, w4 and w5 select no row
\* of it, w1 and w2 make three fits each), and a sheet without a Year
\* column.
RunDatasets ==
    {Dataset(Year, <<Alpha>>, 2001..2023),
     Dataset(Year, <<Zeta, Alpha>>, 2020..2022),
     Dataset(Period, <<Alpha>>, 2001..2023)}

\* The sheets of the enumeration runs: every header of up to MaxPredictors
\* distinct predictor names.
EnumDatasets ==
    {Dataset(Year, p, 2001..2023) :
        p \in UNION {DistinctSeqs(PredictorNames, n) : n \in 0..MaxPredictors}}

\* self.df.columns[2:].tolist()
ColumnsFrom2(d) == SubSeq(d.columns, 3, Len(d.columns))

\* self.df[self.df['Year'].isin(years)], by the years of its rows.
df_selected(d, years) == d.years \cap years

\* run_single_regression on a frame without rows raises (a reduction over
\* a zero-size array); on the other frames of the model it returns a model.
FitRaises(selected) == selected = {}

\* ------------------------------------------------------------------ state

VARIABLES
    df,                     \* self.df
    variables,              \* self.variables
    num_combinations,       \* self.num_combinations
    total_regressions,      \* self.total_regressions
    completed_regressions,  \* self.completed_regressions
    start_time,             \* self.start_time (0 for None)
    now,                    \* time.time(), as a logical clock from 1 on
    runs,                   \* batch runs started on this object
    pc,                     \* where run_regression_scenarios is
    task,                   \* the future of each scenario and its task
    joined,                 \* futures whose result() has returned
    all_results,            \* all_results of the run
    outcome,                \* how the last call of the run ended
    session_results,        \* st.session_state["results"] (<<>> if absent)
    download_links,         \* the exported rows per scenario
    combos,                 \* the enumerations the enumeration runs made
    ranked                  \* the coefficient rows they made last

vars == <<df, variables, num_combinations, total_regressions,
          completed_regressions, start_time, now, runs, pc, task, joined,
          all_results, outcome, session_results, download_links, combos,
          ranked>>

appVars == <<df, variables, num_combinations, total_regressions>>

runVars == <<pc, task, joined, all_results, outcome>>

enumVars == <<combos, ranked>>

NoTask == [state |-> "none", idx |-> 0, reg |-> 0, combinations |-> <<>>,
           years |-> {}, scenario_results |-> <<>>]

\* RegressionApp.__init__, with nothing run and nothing in the session.
Init ==
    /\ df = NoDf
    /\ variables = <<>>
    /\ num_combinations = 0
    /\ total_regressions = 0
    /\ completed_regressions = 0
    /\ start_time = 0
    /\ now = 0
    /\ runs = 0
    /\ pc = "idle"
    /\ task = [s \in ScenarioNames |-> NoTask]
    /\ joined = 0
    /\ all_results = <<>>
    /\ outcome = "none"
    /\ session_results = <<>>
    /\ download_links = <<>>
    /\ combos = <<>>
    /\ ranked = <<>>

\* ---------------------------------------------------------------- methods

\* choose_file with an uploaded file.
choose_file(d) ==
    /\ pc = "idle"
    /\ df' = d
    /\ variables' = ColumnsFrom2(d)
    /\ UNCHANGED <<num_combinations, total_regressions, completed_regressions,
                   start_time, now, runs, session_results, download_links>>
    /\ UNCHANGED runVars
    /\ UNCHANGED enumVars

show_variable_selection ==
    /\ pc = "idle"
    /\ df # NoDf
    /\ variables' = ColumnsFrom2(df)
    /\ num_combinations' = CountCombinations(variables')
    /\ total_regressions' = TotalFactor * num_combinations'
    /\ UNCHANGED <<df, completed_regressions, start_time, now, runs,
                   session_results, download_links>>
    /\ UNCHANGED runVars
    /\ UNCHANGED enumVars

YearGuardDropped(d) == TRUE

\* 'Year' in self.df.columns
HasYear(d) == Year \in Range(d.columns)

\* run_regression_scenarios on a sheet without a Year column: st.error and
\* return.
run_missing_year ==
    /\ pc = "idle"
    /\ runs < MaxRuns
    /\ df # NoDf
    /\ ~HasYear(df)
    /\ outcome' = "error_missing_year"
    /\ runs' = runs + 1
    /\ UNCHANGED <<completed_regressions, start_time, now, pc, task, joined,
                   all_results, session_results, download_links>>
    /\ UNCHANGED appVars
    /\ UNCHANGED enumVars

\* run_regression_scenarios up to the submission of the five futures.
run_launch ==
    /\ pc = "idle"
    /\ runs < MaxRuns
    /\ df # NoDf
    /\ HasYear(df)
    /\ all_results' = <<>>
    /\ now' = now + 1
    /\ start_time' = now'
    /\ task' = [s \in ScenarioNames |-> [NoTask EXCEPT !.state = "queued"]]
    /\ joined' = 0
    /\ pc' = "joining"
    /\ outcome' = "running"
    /\ runs' = runs + 1
    /\ UNCHANGED <<completed_regressions, session_results, download_links>>
    /\ UNCHANGED appVars
    /\ UNCHANGED enumVars

\* ------------------------------------------------------ process_scenario

Running == {s \in ScenarioNames : task[s].state \in {"fit", "store"}}

Finished == {s \in ScenarioNames : task[s].state \in {"done", "raised"}}

Position(s) == CHOOSE i \in DOMAIN ScenarioOrder : ScenarioOrder[i] = s

\* A worker of the pool takes the oldest queued future and runs
\* process_scenario up to its loop.
Start(s) ==
    /\ pc \in {"joining", "unwinding"}
    /\ task[s].state = "queued"
    /\ \A t \in ScenarioNames : Position(t) < Position(s) => task[t].state # "queued"
    /\ Cardinality(Running) < max_workers
    /\ LET combinations_ == AllCombinations(ColumnsFrom2(df))
       IN  task' = [task EXCEPT ![s] =
                      [state |-> IF combinations_ = <<>> THEN "done" ELSE "fit",
                       idx |-> 1,
                       reg |-> 0,
                       combinations |-> combinations_,
                       years |-> predefined_years[s],
                       scenario_results |-> <<>>]]
    /\ UNCHANGED <<completed_regressions, start_time, now, runs, pc, joined,
                   all_results, outcome, session_results, download_links>>
    /\ UNCHANGED appVars
    /\ UNCHANGED enumVars

\* The index enumerate(combinations, start=1) gives the k-th combination.
IndexFromZero(k) == k - 1

EnumerateIndex(k) == k

\* One pass of the loop up to the read of self.completed_regressions: the
\* fit, which may raise out of the task, the append of the result, and the
\* load of the counter that the += begins with.
Fit(s) ==
    /\ task[s].state = "fit"
    /\ LET t == task[s]
           selected_x_vars == t.combinations[t.idx]
       IN  IF FitRaises(df_selected(df, t.years))
           THEN task' = [task EXCEPT ![s].state = "raised"]
           ELSE task' = [task EXCEPT
                           ![s].state = "store",
                           ![s].reg = completed_regressions,
                           ![s].scenario_results =
                               Append(@, [years |-> t.years,
                                          selected_x_vars |-> selected_x_vars,
                                          idx |-> EnumerateIndex(t.idx)])]
    /\ UNCHANGED <<completed_regressions, start_time, now, runs, pc, joined,
                   all_results, outcome, session_results, download_links>>
    /\ UNCHANGED appVars
    /\ UNCHANGED enumVars

\* The rest of the pass: the store that ends the +=, and update_progress,
\* which only reads.
Store(s) ==
    /\ task[s].state = "store"
    /\ completed_regressions' = task[s].reg + 1
    /\ task' = [task EXCEPT
                  ![s].state = IF task[s].idx = Len(task[s].combinations)
                               THEN "done" ELSE "fit",
                  ![s].idx = @ + 1,
                  ![s].reg = 0]
    /\ UNCHANGED <<start_time, now, runs, pc, joined, all_results, outcome,
                   session_results, download_links>>
    /\ UNCHANGED appVars
    /\ UNCHANGED enumVars

\* ------------------------------------------------ the join and the export

Joined == {all_results[i][1] : i \in DOMAIN all_results}

\* as_completed instead of the list of futures.
AnyFinishedFuture == Finished \ Joined

\* for future in futures: the next future of the list.
NextFuture == {ScenarioOrder[joined + 1]}

\* all_results.append(future.result()): the result of a task that
\* returned, or the exception of one that raised, which leaves the loop.
Result(s) ==
    /\ pc = "joining"
    /\ joined < Len(ScenarioOrder)
    /\ s \in NextFuture
    /\ \/ /\ task[s].state = "done"
          /\ all_results' = Append(all_results, <<s, task[s].scenario_results>>)
          /\ joined' = joined + 1
          /\ UNCHANGED pc
       \/ /\ task[s].state = "raised"
          /\ pc' = "unwinding"
          /\ UNCHANGED <<all_results, joined>>
    /\ UNCHANGED <<completed_regressions, start_time, now, runs, task, outcome,
                   session_results, download_links>>
    /\ UNCHANGED appVars
    /\ UNCHANGED enumVars

RECURSIVE Concat(_)
Concat(ss) == IF ss = <<>> THEN <<>> ELSE Head(ss) \o Concat(Tail(ss))

\* The coefficient rows prepare_downloads writes for one scenario.
SummaryRows(scenario_results) ==
    Concat([i \in DOMAIN scenario_results |->
              CoefficientRows(scenario_results[i].selected_x_vars,
                              scenario_results[i].idx)])

\* The end of the with block once every result is in, prepare_downloads and
\* show_combined_results_window.
Finish ==
    /\ pc = "joining"
    /\ joined = Len(ScenarioOrder)
    /\ download_links' = [i \in DOMAIN all_results |->
                            <<all_results[i][1], SummaryRows(all_results[i][2])>>]
    /\ session_results' = all_results
    /\ pc' = "idle"
    /\ outcome' = "completed"
    /\ task' = [s \in ScenarioNames |-> NoTask]
    /\ UNCHANGED <<completed_regressions, start_time, now, runs, joined,
                   all_results>>
    /\ UNCHANGED appVars
    /\ UNCHANGED enumVars

\* The end of the with block after result() raised: the executor waits for
\* every task, then the exception leaves run_regression_scenarios.
Unwind ==
    /\ pc = "unwinding"
    /\ Finished = ScenarioNames
    /\ pc' = "idle"
    /\ outcome' = "exception"
    /\ task' = [s \in ScenarioNames |-> NoTask]
    /\ UNCHANGED <<completed_regressions, start_time, now, runs, joined,
                   all_results, session_results, download_links>>
    /\ UNCHANGED appVars
    /\ UNCHANGED enumVars

Next ==
    \/ \E d \in RunDatasets : choose_file(d)
    \/ show_variable_selection
    \/ run_missing_year
    \/ run_launch
    \/ \E s \in ScenarioNames : Start(s)
    \/ \E s \in ScenarioNames : Fit(s)
    \/ \E s \in ScenarioNames : Store(s)
    \/ \E s \in ScenarioNames : Result(s)
    \/ Finish
    \/ Unwind

Spec == Init /\ [][Next]_vars

\* ------------------------------------------------------ enumeration runs

\* The enumeration of process_scenario over the loaded header, made again.
Enumerate ==
    /\ df # NoDf
    /\ Len(combos) < 2
    /\ combos' = Append(combos, AllCombinations(ColumnsFrom2(df)))
    /\ UNCHANGED <<completed_regressions, start_time, now, runs,
                   session_results, download_links, ranked>>
    /\ UNCHANGED appVars
    /\ UNCHANGED runVars

\* The coefficient rows of the k-th combination.
Rank(k) ==
    /\ combos # <<>>
    /\ k \in DOMAIN combos[1]
    /\ ranked' = <<[selected_x_vars |-> combos[1][k], idx |-> k,
                    rows |-> CoefficientRows(combos[1][k], k)]>>
    /\ UNCHANGED <<completed_regressions, start_time, now, runs,
                   session_results, download_links, combos>>
    /\ UNCHANGED appVars
    /\ UNCHANGED runVars

InitEnum ==
    /\ df \in EnumDatasets
    /\ variables = ColumnsFrom2(df)
    /\ num_combinations = 0
    /\ total_regressions = 0
    /\ completed_regressions = 0
    /\ start_time = 0
    /\ now = 0
    /\ runs = 0
    /\ pc = "idle"
    /\ task = [s \in ScenarioNames |-> NoTask]
    /\ joined = 0
    /\ all_results = <<>>
    /\ outcome = "none"
    /\ session_results = <<>>
    /\ download_links = <<>>
    /\ combos = <<>>
    /\ ranked = <<>>

NextEnum ==
    \/ show_variable_selection
    \/ Enumerate
    \/ \E k \in 1..(2 ^ MaxPredictors) : Rank(k)

SpecEnum == InitEnum /\ [][NextEnum]_vars

\* ================================================================ claims

\* Code point order of two names, stated without recursion: at the first
\* place where they differ the smaller code decides, and a proper prefix
\* comes first.
CodePointBefore(a, b) ==
    \E k \in 1..(Len(b)) :
        /\ \A j \in 1..(k - 1) : j <= Len(a) /\ a[j] = b[j]
        /\ k - 1 <= Len(a)
        /\ (k > Len(a) \/ a[k] < b[k])

\* Lexicographic order of two index tuples of one length.
LexBefore(a, b) ==
    \E k \in DOMAIN a :
        /\ \A j \in 1..(k - 1) : a[j] = b[j]
        /\ a[k] < b[k]

PositionIn(list, name) == CHOOSE i \in DOMAIN list : list[i] = name

IndexTuple(list, entry) == [j \in DOMAIN entry |-> PositionIn(list, entry[j])]

\* The number of fits the results of a batch hold.
RECURSIVE FitsIn(_)
FitsIn(results) ==
    IF results = <<>> THEN 0 ELSE Len(Head(results)[2]) + FitsIn(Tail(results))

\* ---- C1: a fit that fails is recorded as a failed result of its subset;
\* the scenario goes on to its other subsets, the other scenarios complete
\* and the batch returns a result for all scenarios: no task ends by the
\* failure, every task that ended holds one result per subset, and no batch
\* ends by an exception.
C1_FailureAbortsNothing ==
    /\ \A s \in ScenarioNames : task[s].state # "raised"
    /\ \A s \in ScenarioNames :
          task[s].state = "done" =>
              Len(task[s].scenario_results) = Len(AllCombinations(ColumnsFrom2(df)))
    /\ outcome # "exception"

\* ---- C2: no update of the counter is lost: after a complete first batch
\* run of the object (started from completed_regressions = 0) in which no
\* fit failed, completed_regressions is the number of fits performed.
C2_NoLostUpdate ==
    (runs = 1 /\ outcome = "completed") =>
        completed_regressions = FitsIn(session_results)

\* ---- C3: the batch returns the pairs (scenario_name, result list) in the
\* order of submission, whatever the order in which the tasks complete, and
\* nothing reaches the export before every task has completed.
C3_InOrder ==
    /\ \A i \in DOMAIN all_results : all_results[i][1] = ScenarioOrder[i]
    /\ \A i \in DOMAIN session_results : session_results[i][1] = ScenarioOrder[i]
    /\ \A i \in DOMAIN download_links : download_links[i][1] = ScenarioOrder[i]

C3_ExportStep ==
    (\/ session_results' # session_results
     \/ download_links' # download_links
     \/ (outcome' = "completed" /\ outcome # "completed"))
    => /\ \A s \in ScenarioNames : task[s].state = "done"
       /\ session_results' =
              [i \in DOMAIN ScenarioOrder |->
                  <<ScenarioOrder[i], task[ScenarioOrder[i]].scenario_results>>]
       /\ Len(download_links') = Len(ScenarioOrder)

C3_SubmissionOrder == [](C3_InOrder) /\ [][C3_ExportStep]_vars

\* A later scenario has completed before an earlier one while the results
\* are being collected.
C3_Witness ==
    /\ pc = "joining"
    /\ joined = 1
    /\ task["w5"].state = "done"
    /\ task["w2"].state \in {"fit", "store"}

\* ---- C4: on a sheet without a Year column a batch run ends with the error
\* before any task is launched: no future is submitted, nothing is
\* exported, no result is kept and the counter stays as it was (0 on a
\* fresh object).
C4_MissingYearStep ==
    (pc = "idle" /\ df # NoDf /\ Year \notin Range(df.columns) /\ runs' # runs)
    => /\ outcome' = "error_missing_year"
       /\ pc' = "idle"
       /\ task' = task
       /\ \A s \in ScenarioNames : task'[s].state = "none"
       /\ completed_regressions' = completed_regressions
       /\ session_results' = session_results
       /\ download_links' = download_links
       /\ all_results' = all_results
       /\ start_time' = start_time

C4_MissingYearIsFatal ==
    [](outcome = "error_missing_year" /\ runs = 1 => completed_regressions = 0)
    /\ [][C4_MissingYearStep]_vars

C4_Witness ==
    /\ outcome = "error_missing_year"
    /\ runs = 1
    /\ completed_regressions = 0
    /\ session_results = <<>>

\* ---- C5: over N distinct predictor names the enumeration holds every
\* non-empty subset exactly once (2^N - 1 entries, none empty, no two the
\* same subset), by increasing size and within a size in lexicographic
\* order of the positions in the input list; enumerating again gives the
\* same sequence, and num_combinations, once announced, is its length.
C5_EnumerationOf(list, e) ==
    /\ Len(e) = 2 ^ Len(list) - 1
    /\ \A k \in DOMAIN e : e[k] # <<>>
    /\ {Range(e[k]) : k \in DOMAIN e} = (SUBSET Range(list)) \ {{}}
    /\ \A k, m \in DOMAIN e : k # m => Range(e[k]) # Range(e[m])
    /\ \A k \in DOMAIN e :
          LET t == IndexTuple(list, e[k])
          IN  \A j \in 1..(Len(t) - 1) : t[j] < t[j + 1]
    /\ \A k \in 1..(Len(e) - 1) :
          \/ Len(e[k]) < Len(e[k + 1])
          \/ /\ Len(e[k]) = Len(e[k + 1])
             /\ LexBefore(IndexTuple(list, e[k]), IndexTuple(list, e[k + 1]))

C5_Enumeration ==
    /\ \A n \in DOMAIN combos : C5_EnumerationOf(ColumnsFrom2(df), combos[n])
    /\ Len(combos) = 2 => combos[1] = combos[2]
    /\ (total_regressions # 0 \/ num_combinations # 0) =>
          /\ num_combinations = 2 ^ Len(ColumnsFrom2(df)) - 1
          /\ \A n \in DOMAIN combos : num_combinations = Len(combos[n])

C5_Witness ==
    /\ Len(combos) = 2
    /\ Len(ColumnsFrom2(df)) = 3
    /\ num_combinations = 7

\* ---- C6: total_regressions is computed up front: from the launch of the
\* first task on, in every state of the run, it is scenario_count x
\* (2^N - 1) for the N predictors of the loaded sheet.
C6_TotalUpFront ==
    pc \in {"joining", "unwinding"} =>
        total_regressions =
            Len(ScenarioOrder) * (2 ^ Len(ColumnsFrom2(df)) - 1)

\* ---- C7: completed_regressions never decreases from one state to the
\* next, in every interleaving of the tasks.
C7_Monotonic == [][completed_regressions' >= completed_regressions]_vars

\* ---- C8: the progress state is reset at the start of each batch run:
\* the step that launches the tasks leaves completed_regressions at 0 and
\* start_time at the time of the launch.
C8_ResetAtLaunch ==
    [][(pc = "idle" /\ pc' = "joining") =>
          (completed_regressions' = 0 /\ start_time' = now')]_vars

\* ---- C9: the coefficient rows of a subset are the intercept row first,
\* labelled S{idx}Const, then one row per predictor of the subset in
\* ascending code point order of the names, the i-th labelled S{idx}X{i}
\* from 1 on; (Zeta, Alpha) gives Alpha as X1 and Zeta as X2.
C9_RowsOf(r) ==
    /\ Len(r.rows) = 1 + Len(r.selected_x_vars)
    /\ r.rows[1] = [label |-> <<"S", r.idx, "Const">>, name |-> const]
    /\ \A i \in 1..Len(r.selected_x_vars) :
          r.rows[i + 1].label = <<"S", r.idx, "X", i>>
    /\ {r.rows[i + 1].name : i \in 1..Len(r.selected_x_vars)}
          = Range(r.selected_x_vars)
    /\ \A i \in 1..(Len(r.selected_x_vars) - 1) :
          CodePointBefore(r.rows[i + 1].name, r.rows[i + 2].name)
    /\ r.selected_x_vars = <<Zeta, Alpha>> =>
          (r.rows[2].name = Alpha /\ r.rows[3].name = Zeta)

C10_TaskInOrder(s) ==
    LET t == task[s]
        e == AllCombinations(ColumnsFrom2(df))
    IN  /\ \A k \in DOMAIN t.scenario_results :
              /\ t.scenario_results[k].selected_x_vars = e[k]
              /\ t.scenario_results[k].idx = k
        /\ t.state = "fit" => Len(t.scenario_results) = t.idx - 1
        /\ t.state = "store" => Len(t.scenario_results) = t.idx
        /\ t.state = "done" => Len(t.scenario_results) = Len(e)

C10_EnumerationOrder ==
    /\ \A s \in ScenarioNames : C10_TaskInOrder(s)
    /\ pc # "idle" =>
          \A i \in DOMAIN all_results :
              \A k \in DOMAIN all_results[i][2] :
                  /\ all_results[i][2][k].selected_x_vars
                        = AllCombinations(ColumnsFrom2(df))[k]
                  /\ all_results[i][2][k].idx = k

\* A task has completed its three fits while another task is in the middle
\* of its own.
C10_Witness ==
    /\ task["w1"].state = "done"
    /\ Len(task["w1"].scenario_results) = 3
    /\ task["w2"].state = "store"
    /\ task["w2"].idx = 2

=============================================================================
